---- MODULE Spec2Model ----
(***************************************************************************)
(* The JavaScript (src/javascript/lib.cpp) and Rust (src/rust/lib.cpp)     *)
(* bindings of the USearch dense index, as a state machine over one        *)
(* handle.  The engine behind the handle (index_dense_t) is modelled by    *)
(* the Engine* operators; the bindings' handlers are the actions.          *)
(***************************************************************************)
EXTENDS Integers, Sequences, FiniteSets, TLC

VARIABLES binding, handle, native_, last

vars == <<binding, handle, native_, last>>

\* ------------------------------------------------------------------ bounds

\* Width of the unsigned machine word (std::size_t / key_t), scaled down.
WordBits == 5
\* Longest keys / vectors array of a batch add.
MaxBatch == 2
\* Largest capacity asked for at construction.
MaxCapacity == 3
\* Largest number of members the allocator can ever provide.
MaxMembers == 4
\* Largest number of wanted matches.
MaxWanted == 2

RECURSIVE Pow2(_)
Pow2(n) == IF n = 0 THEN 1 ELSE 2 * Pow2(n - 1)

Word == Pow2(WordBits)

Min(a, b) == IF a < b THEN a ELSE b

\* Keys the engine stores, keys a JavaScript caller passes (-1 is not unsigned),
\* dimensionalities of an index, and, per index, the vector lengths tried.
Keys == {1, 2, 3}
HostKeys == Keys \cup {-1}
Dimensions == {1, 2}
Lengths(d) == {d - 1, d, d + 1}
Faults == {"none", "error", "bad_alloc", "throw"}

\* ------------------------------------------------------------ host values

\* Napi::BigInt::Uint64Value(&lossless): the low bits, and whether nothing was lost.
Uint64Value(v) == [value |-> v % Word, lossless |-> v >= 0 /\ v < Word]

\* An optional property of the configuration object: <<>> or <<value>>.
Has(p) == p # <<>>
Get(p) == p[1]

\* ----------------------------------------------------------------- engine

RECURSIVE Smear(_, _)
Smear(v, p) == IF p - 1 >= v THEN p - 1 ELSE Smear(v, 2 * p)

\* ceil2: decrement, smear the highest set bit down, increment, all in the word.
ceil2(v) == (Smear((v - 1) % Word, 1) + 1) % Word

MetricNames == {"ip", "l2sq", "cos", "pearson", "haversine", "hamming", "tanimoto", "sorensen"}
ScalarNames == {"f64", "f32", "f16", "i8", "b1"}

metric_from_name(name) ==
    IF name \in MetricNames THEN [ok |-> TRUE, value |-> name, error |-> ""]
    ELSE [ok |-> FALSE, value |-> "unknown", error |-> "Unknown metric"]

scalar_kind_from_name(name) ==
    IF name \in ScalarNames THEN [ok |-> TRUE, value |-> name, error |-> ""]
    ELSE [ok |-> FALSE, value |-> "unknown", error |-> "Unknown quantization"]

default_connectivity == 16
default_expansion_add == 128
default_expansion_search == 64

NullEngine ==
    [made |-> FALSE, dimensions |-> 0, metric |-> "unknown", quantization |-> "unknown",
     connectivity |-> 0, expansion_add |-> 0, expansion_search |-> 0,
     capacity |-> 0, keys |-> {}]

\* index_dense_t::make(metric, config): an empty engine, nothing reserved.
EngineMake(dimensions, metric, quantization, connectivity, expansion_add, expansion_search) ==
    [made |-> TRUE, dimensions |-> dimensions, metric |-> metric,
     quantization |-> quantization, connectivity |-> connectivity,
     expansion_add |-> expansion_add, expansion_search |-> expansion_search,
     capacity |-> 0, keys |-> {}]

EngineSize(e) == Cardinality(e.keys)

\* reserve(n): grows the capacity to n; fails, changing nothing, when the
\* allocation fails (alloc = FALSE, or more than the allocator can provide).
EngineReserve(e, n, alloc) ==
    IF n <= e.capacity THEN [ok |-> TRUE, engine |-> e]
    ELSE IF ~alloc \/ n > MaxMembers THEN [ok |-> FALSE, engine |-> e]
    ELSE [ok |-> TRUE, engine |-> [e EXCEPT !.capacity = n]]

ErrNoCapacity == "Reserve capacity ahead of insertions!"
ErrDuplicate == "Duplicate keys not allowed in high-level wrappers"
ErrEngine == "Engine failure"
ErrNoFile == "Can't open file"

\* add(key, vector): outcome "ok" (inserted), "error" (error-bearing result),
\* "bad_alloc" or "throw" (native exceptions); only "ok" changes the engine.
EngineAdd(e, key, fault) ==
    IF fault \in {"bad_alloc", "throw"} THEN [outcome |-> fault, error |-> "", engine |-> e]
    ELSE IF fault = "error" THEN [outcome |-> "error", error |-> ErrEngine, engine |-> e]
    ELSE IF EngineSize(e) >= e.capacity
         THEN [outcome |-> "error", error |-> ErrNoCapacity, engine |-> e]
    ELSE IF key \in e.keys
         THEN [outcome |-> "error", error |-> ErrDuplicate, engine |-> e]
    ELSE [outcome |-> "ok", error |-> "", engine |-> [e EXCEPT !.keys = @ \cup {key}]]

\* search(vector, wanted): `found` matches, at most wanted and at most size.
EngineSearch(e, wanted, found, fault) ==
    IF fault \in {"bad_alloc", "throw"} THEN [outcome |-> fault, error |-> "", count |-> 0]
    ELSE IF fault = "error" THEN [outcome |-> "error", error |-> ErrEngine, count |-> 0]
    ELSE [outcome |-> "ok", error |-> "", count |-> Min(found, Min(wanted, EngineSize(e)))]

\* remove(key): completed tells whether the key was there.
EngineRemove(e, key, fault) ==
    IF fault \in {"bad_alloc", "throw"}
    THEN [outcome |-> fault, error |-> "", completed |-> FALSE, engine |-> e]
    ELSE IF fault = "error"
    THEN [outcome |-> "error", error |-> ErrEngine, completed |-> FALSE, engine |-> e]
    ELSE [outcome |-> "ok", error |-> "", completed |-> key \in e.keys,
          engine |-> [e EXCEPT !.keys = @ \ {key}]]

\* rename(from, to): an error when `to` is taken, completed = FALSE when `from` is absent.
EngineRename(e, from, to, fault) ==
    IF fault \in {"bad_alloc", "throw"}
    THEN [outcome |-> fault, error |-> "", completed |-> FALSE, engine |-> e]
    ELSE IF fault = "error" \/ to \in e.keys
    THEN [outcome |-> "error", error |-> IF fault = "error" THEN ErrEngine ELSE ErrDuplicate,
          completed |-> FALSE, engine |-> e]
    ELSE IF from \notin e.keys
    THEN [outcome |-> "ok", error |-> "", completed |-> FALSE, engine |-> e]
    ELSE [outcome |-> "ok", error |-> "", completed |-> TRUE,
          engine |-> [e EXCEPT !.keys = (@ \ {from}) \cup {to}]]

EngineContains(e, key) == key \in e.keys

\* save(path): writes the live entries to the file; the engine is unchanged.
EngineSave(e, fault) ==
    IF fault \in {"bad_alloc", "throw"} THEN [outcome |-> fault, error |-> "", engine |-> e]
    ELSE IF fault = "error" THEN [outcome |-> "error", error |-> ErrEngine, engine |-> e]
    ELSE [outcome |-> "ok", error |-> "", engine |-> e]

\* load(path): the entries of the file `stored` replace the engine's; size and
\* capacity become those of the file.  A missing or corrupt file is fault "error".
EngineLoad(e, stored, fault) ==
    IF fault \in {"bad_alloc", "throw"} THEN [outcome |-> fault, error |-> "", engine |-> e]
    ELSE IF fault = "error" THEN [outcome |-> "error", error |-> ErrNoFile, engine |-> e]
    ELSE [outcome |-> "ok", error |-> "",
          engine |-> [e EXCEPT !.keys = stored, !.capacity = Cardinality(stored)]]

\* view(path): as load, over a memory-mapped file.
EngineView(e, stored, fault) == EngineLoad(e, stored, fault)

\* ------------------------------------------------- what an operation did

NoRet == [count |-> 0, keys_len |-> 0, distances_len |-> 0, flag |-> FALSE]

Answer(ok) == IF ok THEN "ok" ELSE "failed"

\* One call made on the engine, with the size and capacity it was made at.
\* outcome: "ok", "error" (an error-bearing result), "bad_alloc" or "throw" (native
\* exceptions), and for reserve, which answers with a boolean, "ok" or "failed".
Call(fn, e, arg, outcome) ==
    [fn |-> fn, arg |-> arg, size |-> EngineSize(e), capacity |-> e.capacity,
     outcome |-> outcome]

\* The outcome of a JavaScript handler: the errors it threw to the host
\* (ThrowAsJavaScriptException, in order), the engine calls it made, its value.
\* ThrowAsJavaScriptException leaves the error with the host and comes back to
\* the handler, which goes on as its own code says; the host sees the call
\* return normally exactly when nothing was thrown.
Js(e, errors, calls, ret) ==
    [engine |-> e, errors |-> errors, calls |-> calls, ret |-> ret,
     returned |-> errors = <<>>, crashed |-> FALSE]

\* The outcome of a Rust method: an exception (error.raise(), or a native
\* exception of the engine) becomes the Err the caller gets.
Rs(e, errors, calls, ret) ==
    [engine |-> e, errors |-> errors, calls |-> calls, ret |-> ret,
     returned |-> errors = <<>>, crashed |-> FALSE]

\* Reading past the end of a caller's buffer: the process may die.
Crash(e, calls) ==
    [engine |-> e, errors |-> <<>>, calls |-> calls, ret |-> NoRet,
     returned |-> FALSE, crashed |-> TRUE]

\* ------------------------------------------------- src/javascript/lib.cpp

\* The `add` lambda of Index::Add: one key and one vector.
add_lambda(e, key_js, dimensions, fault) ==
    LET key == Uint64Value(key_js) IN
    IF ~key.lossless
    THEN [engine |-> e, errors |-> <<"Keys must be unsigned integers">>, calls |-> <<>>]
    ELSE IF dimensions # e.dimensions
    THEN [engine |-> e, errors |-> <<"Wrong number of dimensions">>, calls |-> <<>>]
    ELSE LET result == EngineAdd(e, key.value, fault) IN
         [engine |-> result.engine,
          errors |-> CASE result.outcome = "ok" -> <<>>
                       [] result.outcome = "error" -> <<result.error>>
                       [] result.outcome = "bad_alloc" -> <<"Out of memory">>
                       [] OTHER -> <<"Insertion failed">>,
          calls |-> <<Call("add", e, key.value, result.outcome)>>]

\* (mutant) The loop gives up at the first element that fails.
RECURSIVE AddLoop_StopAtError(_, _, _, _, _)
AddLoop_StopAtError(acc, keys_js, vectors_js, faults, i) ==
    IF i > Len(keys_js) \/ acc.errors # <<>> THEN acc
    ELSE LET r == add_lambda(acc.engine, keys_js[i], vectors_js[i], faults[i]) IN
         AddLoop_StopAtError([engine |-> r.engine, errors |-> acc.errors \o r.errors,
                              calls |-> acc.calls \o r.calls],
                             keys_js, vectors_js, faults, i + 1)

\* The loop of the batch branch: every element goes through the lambda.
RECURSIVE AddLoop(_, _, _, _, _)
AddLoop(acc, keys_js, vectors_js, faults, i) ==
    IF i > Len(keys_js) THEN acc
    ELSE LET r == add_lambda(acc.engine, keys_js[i], vectors_js[i], faults[i]) IN
         AddLoop([engine |-> r.engine, errors |-> acc.errors \o r.errors,
                  calls |-> acc.calls \o r.calls],
                 keys_js, vectors_js, faults, i + 1)

\* The batch branch once its arrays are known to be equally long, reserving
\* `wanted` members when size + length >= capacity and going on after a failed
\* reservation only if `lenient`.
BatchFrom(e, keys_js, vectors_js, faults, alloc, wanted, lenient) ==
    LET total == (EngineSize(e) + Len(keys_js)) % Word
        grow == total >= e.capacity
        reserved == IF grow THEN EngineReserve(e, wanted, alloc)
                    ELSE [ok |-> TRUE, engine |-> e]
        calls == IF grow THEN <<Call("reserve", e, wanted, Answer(reserved.ok))>> ELSE <<>>
        r == AddLoop([engine |-> reserved.engine, errors |-> <<>>, calls |-> calls],
                     keys_js, vectors_js, faults, 1)
    IN IF ~reserved.ok /\ ~lenient THEN Js(reserved.engine, <<"Out of memory!">>, calls, NoRet)
       ELSE Js(r.engine, r.errors, r.calls, NoRet)

\* (mutant) The batch branch does not look at what reserve answered.
AddBatch_IgnoreFailedReserve(e, keys_js, vectors_js, faults, alloc) ==
    IF Len(keys_js) # Len(vectors_js)
    THEN Js(e, <<"The number of keys must match the number of vectors">>, <<>>, NoRet)
    ELSE BatchFrom(e, keys_js, vectors_js, faults, alloc,
                   ceil2((EngineSize(e) + Len(keys_js)) % Word), TRUE)

\* (mutant) The batch branch reserves size + length, not its next power of two.
AddBatch_ReserveExact(e, keys_js, vectors_js, faults, alloc) ==
    IF Len(keys_js) # Len(vectors_js)
    THEN Js(e, <<"The number of keys must match the number of vectors">>, <<>>, NoRet)
    ELSE BatchFrom(e, keys_js, vectors_js, faults, alloc,
                   (EngineSize(e) + Len(keys_js)) % Word, FALSE)

\* The batch branch of Index::Add.
AddBatch(e, keys_js, vectors_js, faults, alloc) ==
    LET length == Len(keys_js)
        total == (EngineSize(e) + length) % Word
    IN
    IF length # Len(vectors_js)
    THEN Js(e, <<"The number of keys must match the number of vectors">>, <<>>, NoRet)
    ELSE IF total >= e.capacity
    THEN LET reserved == EngineReserve(e, ceil2(total), alloc)
             call == Call("reserve", e, ceil2(total), Answer(reserved.ok))
         IN IF ~reserved.ok
            THEN Js(reserved.engine, <<"Out of memory!">>, <<call>>, NoRet)
            ELSE LET r == AddLoop([engine |-> reserved.engine, errors |-> <<>>,
                                   calls |-> <<call>>], keys_js, vectors_js, faults, 1)
                 IN Js(r.engine, r.errors, r.calls, NoRet)
    ELSE LET r == AddLoop([engine |-> e, errors |-> <<>>, calls |-> <<>>],
                          keys_js, vectors_js, faults, 1)
         IN Js(r.engine, r.errors, r.calls, NoRet)

\* (mutant) The single branch reserves only when size + 1 > capacity.
AddSingle_GrowLate(e, key_js, dimensions, fault, alloc) ==
    LET total == (EngineSize(e) + 1) % Word
        grow == total > e.capacity
        reserved == IF grow THEN EngineReserve(e, ceil2(total), alloc)
                    ELSE [ok |-> TRUE, engine |-> e]
        calls == IF grow THEN <<Call("reserve", e, ceil2(total), Answer(reserved.ok))>>
                 ELSE <<>>
        r == add_lambda(reserved.engine, key_js, dimensions, fault)
    IN Js(r.engine, r.errors, calls \o r.calls, NoRet)

\* The single branch of Index::Add: reserve (its result is not looked at), then the lambda.
AddSingle(e, key_js, dimensions, fault, alloc) ==
    LET total == (EngineSize(e) + 1) % Word
        grow == total >= e.capacity
        reserved == IF grow THEN EngineReserve(e, ceil2(total), alloc)
                    ELSE [ok |-> TRUE, engine |-> e]
        calls == IF grow THEN <<Call("reserve", e, ceil2(total), Answer(reserved.ok))>>
                 ELSE <<>>
        r == add_lambda(reserved.engine, key_js, dimensions, fault)
    IN Js(r.engine, r.errors, calls \o r.calls, NoRet)

\* Index::Add.  a.shape: "arrays" (two arrays), "single" (a BigInt and a typed
\* array) or "other".
Add(e, a) ==
    IF a.argc < 2 THEN Js(e, <<"Expects at least two arguments">>, <<>>, NoRet)
    ELSE IF a.shape = "arrays" THEN AddBatch(e, a.keys, a.vectors, a.faults, a.alloc)
    ELSE IF a.shape = "single"
    THEN AddSingle(e, a.keys[1], a.vectors[1], a.faults[1], a.alloc)
    ELSE Js(e, <<"Invalid argument type, expects integral key(s) and float vector(s)">>,
            <<>>, NoRet)

\* Index::Search.  The two arrays are made `wanted` long before the engine is asked.
Search(e, a) ==
    LET wanted == Uint64Value(a.wanted) IN
    IF a.argc < 2 \/ ~a.typed
    THEN Js(e, <<"Expects a  and the number of wanted results">>, <<>>, NoRet)
    ELSE IF a.dimensions # e.dimensions
    THEN Js(e, <<"Wrong number of dimensions">>, <<>>, NoRet)
    ELSE IF ~wanted.lossless
    THEN Js(e, <<"Wanted number of matches must be an unsigned integer">>, <<>>, NoRet)
    ELSE LET result == EngineSearch(e, wanted.value, a.found, a.fault)
             calls == <<Call("search", e, wanted.value, result.outcome)>>
         IN CASE result.outcome = "ok" ->
                   Js(e, <<>>, calls,
                      [count |-> result.count, keys_len |-> wanted.value,
                       distances_len |-> wanted.value, flag |-> FALSE])
              [] result.outcome = "error" -> Js(e, <<result.error>>, calls, NoRet)
              [] result.outcome = "bad_alloc" -> Js(e, <<"Out of memory">>, calls, NoRet)
              [] OTHER -> Js(e, <<"Search failed">>, calls, NoRet)

\* Index::Remove.
Remove(e, a) ==
    LET key == Uint64Value(a.key) IN
    IF a.argc < 1 \/ ~a.typed THEN Js(e, <<"Expects an entry identifier">>, <<>>, NoRet)
    ELSE IF ~key.lossless
    THEN Js(e, <<"Identifier must be an unsigned integer">>, <<>>, NoRet)
    ELSE LET result == EngineRemove(e, key.value, a.fault)
             calls == <<Call("remove", e, key.value, result.outcome)>>
         IN CASE result.outcome = "ok" ->
                   Js(result.engine, <<>>, calls, [NoRet EXCEPT !.flag = result.completed])
              [] result.outcome = "error" -> Js(e, <<result.error>>, calls, NoRet)
              [] result.outcome = "bad_alloc" -> Js(e, <<"Out of memory">>, calls, NoRet)
              [] OTHER -> Js(e, <<"Search failed">>, calls, NoRet)

\* Index::Contains.
Contains(e, a) ==
    LET key == Uint64Value(a.key) IN
    IF a.argc < 1 \/ ~a.typed THEN Js(e, <<"Expects an entry identifier">>, <<>>, NoRet)
    ELSE IF ~key.lossless
    THEN Js(e, <<"Identifier must be an unsigned integer">>, <<>>, NoRet)
    ELSE LET calls == <<Call("contains", e, key.value,
                             IF a.fault = "none" THEN "ok" ELSE a.fault)>> IN
         CASE a.fault = "none" ->
                Js(e, <<>>, calls, [NoRet EXCEPT !.flag = EngineContains(e, key.value)])
           [] a.fault = "bad_alloc" -> Js(e, <<"Out of memory">>, calls, NoRet)
           [] OTHER -> Js(e, <<"Search failed">>, calls, NoRet)

\* Index::Save, Index::Load, Index::View share one shape: the path check, the
\* engine call, its error rethrown, any exception turned into `generic`.
Persist(e, a, fn, result, generic) ==
    IF a.argc = 0 \/ ~a.typed
    THEN Js(e, <<"Function expects a string path argument">>, <<>>, NoRet)
    ELSE LET calls == <<Call(fn, e, 0, result.outcome)>> IN
         CASE result.outcome = "ok" -> Js(result.engine, <<>>, calls, NoRet)
           [] result.outcome = "error" -> Js(e, <<result.error>>, calls, NoRet)
           [] OTHER -> Js(e, <<generic>>, calls, NoRet)

Save(e, a) == Persist(e, a, "save", EngineSave(e, a.fault), "Serialization failed")
Load(e, a) == Persist(e, a, "load", EngineLoad(e, a.stored, a.fault), "Loading failed")
View(e, a) == Persist(e, a, "view", EngineView(e, a.stored, a.fault), "Memory-mapping failed")

\* Index::Index.  Every Uint64Value call writes the one `lossless` flag, so the
\* flag tested is that of the last numeric property present.
Index(o, alloc) ==
    IF o.argc = 0 \/ o.argc >= 2 \/ ~o.isObject
    THEN Js(NullEngine,
            <<"Pass args as named objects: dimensions: uint, capacity: uint, metric: str">>,
            <<>>, NoRet)
    ELSE
    LET Conv(p, lossless, default) ==
            IF Has(p) THEN Uint64Value(Get(p)) ELSE [value |-> default, lossless |-> lossless]
        dimensions == Conv(o.dimensions, TRUE, 0)
        members == Conv(o.capacity, dimensions.lossless, 0)
        connectivity == Conv(o.connectivity, members.lossless, default_connectivity)
        expansion_add == Conv(o.expansion_add, connectivity.lossless, default_expansion_add)
        expansion_search ==
            Conv(o.expansion_search, expansion_add.lossless, default_expansion_search)
        lossless == expansion_search.lossless
        quantization == IF Has(o.quantization) THEN scalar_kind_from_name(Get(o.quantization))
                        ELSE [ok |-> TRUE, value |-> "f32", error |-> ""]
        metric_kind == IF Has(o.metric) THEN metric_from_name(Get(o.metric))
                       ELSE [ok |-> TRUE, value |-> "ip", error |-> ""]
    IN
    IF ~lossless THEN Js(NullEngine, <<"Arguments must be unsigned integers">>, <<>>, NoRet)
    ELSE IF ~quantization.ok THEN Js(NullEngine, <<quantization.error>>, <<>>, NoRet)
    ELSE IF ~metric_kind.ok THEN Js(NullEngine, <<metric_kind.error>>, <<>>, NoRet)
    ELSE LET made == EngineMake(dimensions.value, metric_kind.value, quantization.value,
                                connectivity.value, expansion_add.value,
                                expansion_search.value)
             reserved == EngineReserve(made, members.value, alloc)
         IN Js(reserved.engine, <<>>,
               <<Call("make", NullEngine, 0, "ok"),
                 Call("reserve", made, members.value, Answer(reserved.ok))>>, NoRet)

\* ------------------------------------------------------- src/rust/lib.cpp

\* A vector shorter than the index's dimensionality is read past its end.
Overread(e, dimensions) == dimensions < e.dimensions

\* Index::add: the slice's length is never looked at, nothing is reserved.
add(e, key, dimensions, fault, ub) ==
    LET result == EngineAdd(e, key, fault)
        calls == <<Call("add", e, key, result.outcome)>>
    IN IF Overread(e, dimensions) /\ ub = "crash" THEN Crash(e, calls)
       ELSE CASE result.outcome = "ok" -> Rs(result.engine, <<>>, calls, NoRet)
              [] result.outcome = "error" -> Rs(e, <<result.error>>, calls, NoRet)
              [] OTHER -> Rs(e, <<result.outcome>>, calls, NoRet)

\* Index::remove.
remove(e, key, fault) ==
    LET result == EngineRemove(e, key, fault)
        calls == <<Call("remove", e, key, result.outcome)>>
    IN CASE result.outcome = "ok" ->
              Rs(result.engine, <<>>, calls, [NoRet EXCEPT !.flag = result.completed])
         [] result.outcome = "error" -> Rs(e, <<result.error>>, calls, NoRet)
         [] OTHER -> Rs(e, <<result.outcome>>, calls, NoRet)

\* Index::rename.
rename(e, from, to, fault) ==
    LET result == EngineRename(e, from, to, fault)
        calls == <<Call("rename", e, from, result.outcome)>>
    IN CASE result.outcome = "ok" ->
              Rs(result.engine, <<>>, calls, [NoRet EXCEPT !.flag = result.completed])
         [] result.outcome = "error" -> Rs(e, <<result.error>>, calls, NoRet)
         [] OTHER -> Rs(e, <<result.outcome>>, calls, NoRet)

\* Index::contains.
contains(e, key, fault) ==
    LET calls == <<Call("contains", e, key, IF fault = "none" THEN "ok" ELSE fault)>> IN
    IF fault = "none" THEN Rs(e, <<>>, calls, [NoRet EXCEPT !.flag = EngineContains(e, key)])
    ELSE Rs(e, <<fault>>, calls, NoRet)

\* Index::search: `count` zeros are pushed, the engine fills them, both vectors
\* are truncated to what dump_to returned.
search(e, dimensions, count, found, fault, ub) ==
    LET result == EngineSearch(e, count, found, fault)
        calls == <<Call("search", e, count, result.outcome)>>
    IN IF Overread(e, dimensions) /\ ub = "crash" THEN Crash(e, calls)
       ELSE CASE result.outcome = "ok" ->
                   Rs(e, <<>>, calls,
                      [count |-> result.count, keys_len |-> Min(count, result.count),
                       distances_len |-> Min(count, result.count), flag |-> FALSE])
              [] result.outcome = "error" -> Rs(e, <<result.error>>, calls, NoRet)
              [] OTHER -> Rs(e, <<result.outcome>>, calls, NoRet)

\* Index::reserve: what the engine's reserve returns is dropped.
reserve(e, capacity, alloc) ==
    LET reserved == EngineReserve(e, capacity, alloc) IN
    Rs(reserved.engine, <<>>, <<Call("reserve", e, capacity, Answer(reserved.ok))>>,
       NoRet)

\* Index::save, Index::load, Index::view: the engine's result is dropped, so
\* only a native exception reaches the caller.
Dropped(e, fn, result) ==
    LET calls == <<Call(fn, e, 0, result.outcome)>> IN
    IF result.outcome \in {"ok", "error"} THEN Rs(result.engine, <<>>, calls, NoRet)
    ELSE Rs(e, <<result.outcome>>, calls, NoRet)

save(e, fault) == Dropped(e, "save", EngineSave(e, fault))
load(e, stored, fault) == Dropped(e, "load", EngineLoad(e, stored, fault))
view(e, stored, fault) == Dropped(e, "view", EngineView(e, stored, fault))

rust_to_cpp_metric(value) ==
    CASE value = "IP" -> "ip"
      [] value = "L2sq" -> "l2sq"
      [] value = "Cos" -> "cos"
      [] value = "Pearson" -> "pearson"
      [] value = "Haversine" -> "haversine"
      [] value = "Hamming" -> "hamming"
      [] value = "Tanimoto" -> "tanimoto"
      [] value = "Sorensen" -> "sorensen"
      [] OTHER -> "unknown"

rust_to_cpp_scalar(value) ==
    CASE value = "I8" -> "i8"
      [] value = "F16" -> "f16"
      [] value = "F32" -> "f32"
      [] value = "F64" -> "f64"
      [] value = "B1" -> "b1"
      [] OTHER -> "unknown"

\* new_index: make and wrap; nothing is validated and nothing is reserved.
new_index(options) ==
    LET made == EngineMake(options.dimensions, rust_to_cpp_metric(options.metric),
                           rust_to_cpp_scalar(options.quantization), options.connectivity,
                           options.expansion_add, options.expansion_search)
    IN Rs(made, <<>>, <<Call("make", NullEngine, 0, "ok")>>, NoRet)

\* ------------------------------------------------------------ the inputs

BatchFaults == {"none", "error", "bad_alloc"}
BatchLengths(d) == {d, d + 1}
Allocs(e, n) == IF (EngineSize(e) + n) % Word >= e.capacity THEN BOOLEAN ELSE {TRUE}

AddArg(argc, shape, keys, vectors, faults, alloc) ==
    [argc |-> argc, shape |-> shape, keys |-> keys, vectors |-> vectors,
     faults |-> faults, alloc |-> alloc]

\* Arrays of different lengths, too few arguments, arguments of other types.
BadAddArgs(e) ==
    {AddArg(2, "arrays", [i \in 1..nm[1] |-> 1], [i \in 1..nm[2] |-> e.dimensions],
            <<>>, TRUE) :
        nm \in {p \in (0..MaxBatch) \X (0..MaxBatch) : p[1] # p[2]}}
    \cup {AddArg(1, "other", <<>>, <<>>, <<>>, TRUE), AddArg(2, "other", <<>>, <<>>, <<>>, TRUE)}

Ubs(e, d) == IF Overread(e, d) THEN {"read", "crash"} ELSE {"read"}

SearchArgs(e) ==
    {[argc |-> 2, typed |-> TRUE, dimensions |-> d, wanted |-> w, found |-> n, fault |-> f] :
        d \in Lengths(e.dimensions), w \in (0..MaxWanted) \cup {-1}, n \in 0..MaxWanted,
        f \in Faults}
    \cup {[argc |-> c, typed |-> FALSE, dimensions |-> e.dimensions, wanted |-> 0,
           found |-> 0, fault |-> "none"] : c \in {1, 2}}

KeyArgs(faults) ==
    {[argc |-> 1, typed |-> TRUE, key |-> k, fault |-> f] : k \in HostKeys, f \in faults}
    \cup {[argc |-> c, typed |-> FALSE, key |-> 1, fault |-> "none"] : c \in {0, 1}}

PathArgs ==
    {[argc |-> 1, typed |-> TRUE, stored |-> ks, fault |-> f] :
        ks \in SUBSET Keys, f \in Faults}
    \cup {[argc |-> c, typed |-> FALSE, stored |-> {}, fault |-> "none"] : c \in {0, 1}}

SavePathArgs == {a \in PathArgs : a.stored = {}}

Opt(S) == {<<>>} \cup {<<v>> : v \in S}

Options(dims, caps, nums, quants, metrics) ==
    [argc : {1}, isObject : {TRUE}, dimensions : dims, capacity : caps,
     connectivity : nums, expansion_add : nums, expansion_search : nums,
     quantization : quants, metric : metrics]

\* Every configuration bag tried at construction, well-formed or not.
AllOptions ==
    Options(Opt({2, -1}), Opt((0..MaxCapacity) \cup {-1}), Opt({1, -1}),
            Opt({"i8", "int8"}), Opt({"cos", "cosine"}))
    \cup {[o EXCEPT !.argc = c, !.isObject = b] :
            o \in Options({<<2>>}, {<<>>}, {<<>>}, {<<>>}, {<<>>}),
            c \in 0..2, b \in BOOLEAN}

\* The configurations the handles of Spec are built with.
PlainOptions ==
    Options({<<d>> : d \in Dimensions}, Opt(0..MaxCapacity), {<<>>}, {<<>>}, {<<>>})

RustOptions(dims, metrics, quants, nums) ==
    [dimensions : dims, metric : metrics, quantization : quants, connectivity : nums,
     expansion_add : nums, expansion_search : nums]

AllRustOptions == RustOptions({0, 2}, {"IP", "Cos", "Other"}, {"F32", "I8", "Other"}, {1, 2})
PlainRustOptions == RustOptions(Dimensions, {"IP"}, {"F32"}, {1})

\* ------------------------------------------------------------ the actions

Outcome(op, a, pre, r) ==
    [op |-> op, args |-> a, pre |-> pre, errors |-> r.errors, calls |-> r.calls,
     ret |-> r.ret, returned |-> r.returned]

\* A handler ran on the handle: the engine it leaves, and what it reported.
Apply(op, a, r) ==
    /\ native_' = r.engine
    /\ handle' = IF r.crashed THEN "crashed" ELSE handle
    /\ last' = Outcome(op, a, native_, r)
    /\ UNCHANGED binding

\* A constructor ran: the handle is usable exactly when it did not throw.
Construct(b, op, a, r) ==
    /\ binding' = b
    /\ native_' = r.engine
    /\ handle' = IF r.returned THEN "usable" ELSE "failed"
    /\ last' = Outcome(op, a, NullEngine, r)

\* No call is in progress and none has a result the host has yet to take.
Idle == Outcome("idle", <<>>, NullEngine, Js(NullEngine, <<>>, <<>>, NoRet))

\* The bindings are called from one thread: a call starts after the host took
\* the result of the one before.
OnJs == handle = "usable" /\ binding = "js" /\ last = Idle
OnRust == handle = "usable" /\ binding = "rust" /\ last = Idle

\* The host takes the value or the error of the call that just ended.
Return ==
    /\ last # Idle
    /\ last' = Idle
    /\ UNCHANGED <<binding, handle, native_>>

JsAdd ==
    OnJs /\ \E k \in HostKeys, d \in Lengths(native_.dimensions), f \in Faults,
                m \in Allocs(native_, 1) :
              LET a == AddArg(2, "single", <<k>>, <<d>>, <<f>>, m) IN
              Apply("add", a, Add(native_, a))
JsAddBatch ==
    OnJs /\ \E n \in 0..MaxBatch :
              \E ks \in [1..n -> HostKeys], vs \in [1..n -> BatchLengths(native_.dimensions)],
                 fs \in [1..n -> BatchFaults], m \in Allocs(native_, n) :
                LET a == AddArg(2, "arrays", ks, vs, fs, m) IN
                Apply("add", a, Add(native_, a))
JsAddBad == OnJs /\ \E a \in BadAddArgs(native_) : Apply("add", a, Add(native_, a))
JsSearch == OnJs /\ \E a \in SearchArgs(native_) : Apply("search", a, Search(native_, a))
JsRemove == OnJs /\ \E a \in KeyArgs(Faults) : Apply("remove", a, Remove(native_, a))
JsContains ==
    OnJs /\ \E a \in KeyArgs(Faults \ {"error"}) : Apply("contains", a, Contains(native_, a))
JsSave == OnJs /\ \E a \in SavePathArgs : Apply("save", a, Save(native_, a))
JsLoad == OnJs /\ \E a \in PathArgs : Apply("load", a, Load(native_, a))
JsView == OnJs /\ \E a \in PathArgs : Apply("view", a, View(native_, a))

RustAdd ==
    OnRust /\ \E k \in Keys, d \in Lengths(native_.dimensions), f \in Faults :
                \E u \in Ubs(native_, d) :
                    Apply("add", [shape |-> "single", keys |-> <<k>>, vectors |-> <<d>>,
                                  faults |-> <<f>>, ub |-> u],
                          add(native_, k, d, f, u))
RustRemove ==
    OnRust /\ \E k \in Keys, f \in Faults :
                Apply("remove", [key |-> k, fault |-> f], remove(native_, k, f))
RustRename ==
    OnRust /\ \E k \in Keys, t \in Keys, f \in Faults :
                Apply("rename", [key |-> k, to |-> t, fault |-> f], rename(native_, k, t, f))
RustContains ==
    OnRust /\ \E k \in Keys, f \in Faults \ {"error"} :
                Apply("contains", [key |-> k, fault |-> f], contains(native_, k, f))
RustSearch ==
    OnRust /\ \E d \in Lengths(native_.dimensions), w \in 0..MaxWanted, n \in 0..MaxWanted,
                 f \in Faults :
                \E u \in Ubs(native_, d) :
                    Apply("search",
                          [argc |-> 2, typed |-> TRUE, dimensions |-> d, wanted |-> w,
                           found |-> n, fault |-> f, ub |-> u],
                          search(native_, d, w, n, f, u))
RustReserve ==
    OnRust /\ \E c \in 0..MaxMembers + 1, m \in BOOLEAN :
                Apply("reserve", [capacity |-> c, alloc |-> m], reserve(native_, c, m))
RustSave == OnRust /\ \E f \in Faults : Apply("save", [fault |-> f], save(native_, f))
RustLoad ==
    OnRust /\ \E ks \in SUBSET Keys, f \in Faults :
                Apply("load", [stored |-> ks, fault |-> f], load(native_, ks, f))
RustView ==
    OnRust /\ \E ks \in SUBSET Keys, f \in Faults :
                Apply("view", [stored |-> ks, fault |-> f], view(native_, ks, f))

\* ------------------------------------------------------ the specification

Built(b, op, a, r) ==
    /\ binding = b
    /\ native_ = r.engine
    /\ handle = "usable"
    /\ last = Outcome(op, a, NullEngine, r)

\* Spec starts from a handle a constructor returned.
Init ==
    \/ \E o \in PlainOptions, m \in BOOLEAN :
          Index(o, m).returned /\ Built("js", "new", [options |-> o, alloc |-> m], Index(o, m))
    \/ \E o \in PlainRustOptions : Built("rust", "new", [options |-> o], new_index(o))

Next ==
    \/ JsAdd \/ JsAddBatch \/ JsAddBad \/ JsSearch \/ JsRemove \/ JsContains
    \/ JsSave \/ JsLoad \/ JsView
    \/ RustAdd \/ RustRemove \/ RustRename \/ RustContains \/ RustSearch \/ RustReserve
    \/ RustSave \/ RustLoad \/ RustView
    \/ Return

Spec == Init /\ [][Next]_vars

\* SpecNew is construction alone, over every configuration bag.
InitNew ==
    /\ binding = "none"
    /\ handle = "none"
    /\ native_ = NullEngine
    /\ last = Idle

JsNew ==
    handle = "none" /\ \E o \in AllOptions, m \in BOOLEAN :
        Construct("js", "new", [options |-> o, alloc |-> m], Index(o, m))
RustNew ==
    handle = "none" /\ \E o \in AllRustOptions :
        Construct("rust", "new", [options |-> o], new_index(o))

NextNew == JsNew \/ RustNew

SpecNew == InitNew /\ [][NextNew]_vars

\* ------------------------------------------------------------- the claims

SizeBefore == EngineSize(last.pre)
SizeAfter == EngineSize(native_)

IsPow2(n) == \E k \in 0..WordBits : n = Pow2(k)

\* The calls of the last operation to the engine's function fn, in order.
CallsTo(fn) == SelectSeq(last.calls, LAMBDA c : c.fn = fn)
ReserveFailed == \E i \in 1..Len(last.calls) :
                    last.calls[i].fn = "reserve" /\ last.calls[i].outcome = "failed"

SingleAdd == last.op = "add" /\ last.args.shape = "single"
BatchAdd == last.op = "add" /\ last.args.shape = "arrays" /\ binding = "js"
                /\ Len(last.args.keys) = Len(last.args.vectors)
BatchLen == Len(last.args.keys)

\* Element i of the last add passes the binding's validation.
ValidKey(i) == Uint64Value(last.args.keys[i]).lossless
ValidVector(i) == last.args.vectors[i] = last.pre.dimensions
Valid(i) == ValidKey(i) /\ ValidVector(i)

HasError(msgs) == \E i \in 1..Len(last.errors) : last.errors[i] \in msgs
DimensionError == HasError({"Wrong number of dimensions"})
MemoryError == HasError({"Out of memory", "Out of memory!"})

\* A single add, or a search, whose only flaw is the length of its vector, on
\* an engine in which nothing else fails.
MismatchedAdd ==
    SingleAdd /\ ValidKey(1) /\ ~ValidVector(1) /\ last.args.faults[1] = "none"
MismatchedSearch ==
    /\ last.op = "search" /\ last.args.argc >= 2 /\ last.args.typed
    /\ Uint64Value(last.args.wanted).lossless
    /\ last.args.dimensions # last.pre.dimensions
    /\ last.args.fault = "none"

\* C1: in every binding, add(key, vector) and search(vector, k) with a vector whose
\* length differs from dimensions() fail with a dimension-mismatch error, and
\* size() after the call equals size() before it.  (Stated of the calls that
\* come back to the caller.)
C1_MismatchRejected ==
    (handle = "usable" /\ (MismatchedAdd \/ MismatchedSearch)) =>
        (~last.returned /\ DimensionError /\ SizeAfter = SizeBefore)

\* What the JavaScript binding does of C1.
C1_JsMismatchRejected ==
    (binding = "js" /\ (MismatchedAdd \/ MismatchedSearch)) =>
        (~last.returned /\ last.errors = <<"Wrong number of dimensions">>
            /\ CallsTo("add") = <<>> /\ CallsTo("search") = <<>>
            /\ SizeAfter = SizeBefore)

\* The batch add of C2: every element valid, the keys new and distinct, no fault
\* in the engine and no failed reservation, so the engine accepts each.
AllAccepted ==
    /\ BatchAdd /\ ~ReserveFailed
    /\ \A i \in 1..BatchLen : Valid(i) /\ last.args.faults[i] = "none"
                                /\ last.args.keys[i] \notin last.pre.keys
    /\ \A i, j \in 1..BatchLen : i # j => last.args.keys[i] # last.args.keys[j]
HadToGrow == (SizeBefore + BatchLen) % Word >= last.pre.capacity

\* What C2 says of such a batch, but for the power of two.
C2_Sizes ==
    /\ last.returned
    /\ SizeAfter = SizeBefore + BatchLen
    /\ native_.capacity >= BatchLen
    /\ HadToGrow => native_.capacity = ceil2(SizeBefore + BatchLen)
    /\ ~HadToGrow => native_.capacity = last.pre.capacity

C3_BatchReserveFailureInsertsNothing ==
    (BatchAdd /\ ReserveFailed) =>
        /\ ~last.returned
        /\ last.errors = <<"Out of memory!">>
        /\ CallsTo("add") = <<>>
        /\ SizeAfter = SizeBefore
        /\ native_ = last.pre

C3_Witness ==
    BatchAdd /\ ReserveFailed /\ BatchLen >= 2
        /\ \A i \in 1..BatchLen : Valid(i) /\ last.args.faults[i] = "none"

\* C4: when the reservation of a single add(key, vector) of valid arguments
\* fails, the add is reported as an out-of-memory error, the engine's add is not
\* invoked, and size, capacity and stored keys are as before the call.
C4_SingleReserveFailureAborts ==
    (SingleAdd /\ binding = "js" /\ Valid(1) /\ ReserveFailed
        /\ last.args.faults[1] = "none") =>
        /\ ~last.returned
        /\ MemoryError
        /\ CallsTo("add") = <<>>
        /\ native_ = last.pre

\* C5: a single add(key, vector) with a vector of the wrong length or a key that
\* is no lossless unsigned integer fails with a type error and calls neither
\* reserve nor add on the engine: size() and capacity() are unchanged.  (Stated
\* of the calls in which no allocation fails.)
C5_InvalidSingleAddNeverReachesEngine ==
    (SingleAdd /\ binding = "js" /\ ~Valid(1) /\ ~ReserveFailed) =>
        /\ ~last.returned
        /\ last.calls = <<>>
        /\ SizeAfter = SizeBefore
        /\ native_.capacity = last.pre.capacity

\* The keys of the valid elements of the batch from element i on, in order.
RECURSIVE ValidKeysFrom(_)
ValidKeysFrom(i) ==
    IF i > BatchLen THEN <<>>
    ELSE (IF Valid(i) THEN <<Uint64Value(last.args.keys[i]).value>> ELSE <<>>)
            \o ValidKeysFrom(i + 1)

Inserted == SelectSeq(CallsTo("add"), LAMBDA c : c.outcome = "ok")

C7_SearchBuffersTruncated ==
    (last.op = "search" /\ last.returned) =>
        /\ last.ret.count <= Uint64Value(last.args.wanted).value
        /\ last.ret.keys_len = last.ret.count
        /\ last.ret.distances_len = last.ret.count

\* C8: no operation returns normally when a result it got from the engine
\* carries an error.
C8_EngineErrorsSurfaced ==
    (\E i \in 1..Len(last.calls) : last.calls[i].outcome = "error") => ~last.returned

\* What the configuration bag of the last construction asks for.
Asked(p, default) == IF Has(p) THEN Get(p) ELSE default
Numeric(o) == <<o.dimensions, o.capacity, o.connectivity, o.expansion_add, o.expansion_search>>
AllLossless(o) == \A i \in 1..5 : Has(Numeric(o)[i]) => Uint64Value(Get(Numeric(o)[i])).lossless

\* C9: construction is all or nothing: a usable handle owns an engine built
\* with the given metric, quantization, connectivity and expansions, of size 0,
\* with the requested capacity reserved, every validation having passed; a
\* failed construction made and reserved no engine.
C9_ConstructionAllOrNothing ==
    /\ handle = "failed" => (~native_.made /\ last.calls = <<>>)
    /\ handle = "usable" => (native_.made /\ SizeAfter = 0)
    /\ (handle = "usable" /\ binding = "js") =>
        LET o == last.args.options IN
        /\ AllLossless(o)
        /\ native_.dimensions = Asked(o.dimensions, 0)
        /\ native_.metric = Asked(o.metric, "ip")
        /\ native_.quantization = Asked(o.quantization, "f32")
        /\ native_.connectivity = Asked(o.connectivity, default_connectivity)
        /\ native_.expansion_add = Asked(o.expansion_add, default_expansion_add)
        /\ native_.expansion_search = Asked(o.expansion_search, default_expansion_search)
        /\ native_.capacity >= Asked(o.capacity, 0)

\* Every engine add of the last operation was made with room for one more.
AddsHadRoom == \A i \in 1..Len(last.calls) :
                  last.calls[i].fn = "add" => last.calls[i].capacity >= last.calls[i].size + 1

\* The single add reserved exactly when size + 1 >= capacity, and then
\* next_power_of_two(size + 1).
GrewWhenDue ==
    CallsTo("reserve") = IF SizeBefore + 1 >= last.pre.capacity
                         THEN <<Call("reserve", last.pre, ceil2(SizeBefore + 1),
                                     Answer(~ReserveFailed))>>
                         ELSE <<>>

====
